---- MODULE Spec2Model ----
(***************************************************************************)
(* Model of graphdatascience/query_runner/aura_db_arrow_query_runner.py:   *)
(* AuraDbArrowQueryRunner (the dispatcher in front of a fallback query     *)
(* runner, the "delegate") and AuthPairInterceptingMiddleware (the single  *)
(* shared slot holding the token and address of the last handshake).       *)
(*                                                                         *)
(* Python strings are sequences of one-character strings, so that          *)
(* endswith, split and int are computed and not assumed.  An Optional      *)
(* value is a sequence of length 0 (None / attribute never assigned) or 1. *)
(* A dict is a function whose domain is the set of its keys.               *)
(***************************************************************************)
EXTENDS Integers, Sequences, FiniteSets, TLC

\* ------------------------------------------------------------------------
\* String literals of the source
\* ------------------------------------------------------------------------
GDS_REMOTE_PROJECTION_PROC_NAME ==
    <<"g", "d", "s", ".", "g", "r", "a", "p", "h", ".", "p", "r", "o", "j", "e", "c", "t", ".", "r", "e", "m", "o", "t", "e", "D", "b">>
DotWrite == <<".", "w", "r", "i", "t", "e">>
GraphListEndpoint == <<"g", "d", "s", ".", "g", "r", "a", "p", "h", ".", "l", "i", "s", "t">>
GraphNameBody == <<"$", "g", "r", "a", "p", "h", "_", "n", "a", "m", "e">>
DatabaseLocationColumn ==
    <<"d", "a", "t", "a", "b", "a", "s", "e", "L", "o", "c", "a", "t", "i", "o", "n">>
RemoteLocation == <<"r", "e", "m", "o", "t", "e">>
BearerScheme == <<"B", "e", "a", "r", "e", "r">>

\* ------------------------------------------------------------------------
\* Strings used as inputs
\* ------------------------------------------------------------------------
EpWrite == <<"x", ".", "w", "r", "i", "t", "e">>
EpStream == <<"g", "d", "s", ".", "p", "a", "g", "e", "R", "a", "n", "k", ".", "s", "t", "r", "e", "a", "m">>
EpRewrite == <<"g", "d", "s", ".", "r", "e", "w", "r", "i", "t", "e">>
LocLocal == <<"l", "o", "c", "a", "l">>
AuthBearerT1 == <<"B", "e", "a", "r", "e", "r", " ", "T", "1">>
AuthBearerT2 == <<"B", "e", "a", "r", "e", "r", " ", "T", "2">>
AuthBearerSpaced == <<"B", "e", "a", "r", "e", "r", " ", "a", " ", "b">>
AuthBasic == <<"B", "a", "s", "i", "c", " ", "x", "y">>
AuthNoSpace == <<"B", "e", "a", "r", "e", "r">>
AddrH2 == <<"h", "2", ":", "5">>
AddrH3 == <<"h", "3", ":", "7", "7">>
AddrNoColon == <<"h", "2">>
AddrBadPort == <<"h", "2", ":", "x">>
AddrTwoColons == <<"a", ":", "b", ":", "5">>
GraphG == <<"g">>
TokenU == <<"U">>
BodyText == <<"$", "g", ",", "$", "c">>
YieldCol == <<"n", "o", "d", "e", "I", "d">>
DbName == <<"d", "b", "1">>
AddrH1234 == <<"h", ":", "1", "2", "3", "4">>
AddrIp == <<"1", "0", ".", "0", ".", "0", ".", "5", ":", "9", "9", "9", "9">>
AuthBearerEmpty == <<"B", "e", "a", "r", "e", "r", " ">>
UriA == <<"n", "e", "o", "4", "j", ":", "/", "/", "a">>
UriB == <<"n", "e", "o", "4", "j", "+", "s", ":", "/", "/", "b">>
JobId == <<"m", "y", "J", "o", "b", "I", "d">>
JobId2 == <<"j", "2">>
NsGds == <<"g", "d", "s">>
NsGdsBeta == <<"g", "d", "s", ".", "b", "e", "t", "a">>
NsGdsAlpha == <<"g", "d", "s", ".", "a", "l", "p", "h", "a">>

\* ------------------------------------------------------------------------
\* Optional values and dicts
\* ------------------------------------------------------------------------
None == <<>>
Some(x) == <<x>>
IsNone(o) == Len(o) = 0

EmptyDict == [k \in {} |-> 0]
Keys(d) == DOMAIN d
\* d[k] = v on a dict: adds the key or replaces its value
SetItem(d, k, v) == [x \in (DOMAIN d) \cup {k} |-> IF x = k THEN v ELSE d[x]]

\* ------------------------------------------------------------------------
\* str.endswith, str.split, int
\* ------------------------------------------------------------------------
EndsWith(s, suffix) ==
    /\ Len(s) >= Len(suffix)
    /\ SubSeq(s, Len(s) - Len(suffix) + 1, Len(s)) = suffix

\* index of the first occurrence of the character sep in s, 0 if none
IndexOf(s, sep) ==
    IF \E i \in 1..Len(s) : s[i] = sep
    THEN CHOOSE i \in 1..Len(s) : s[i] = sep /\ \A j \in 1..(i - 1) : s[j] # sep
    ELSE 0

\* s.split(sep, 1): one part when sep does not occur, else the text before
\* and the text after the first occurrence
SplitOnce(s, sep) ==
    LET i == IndexOf(s, sep)
    IN  IF i = 0 THEN <<s>>
        ELSE <<SubSeq(s, 1, i - 1), SubSeq(s, i + 1, Len(s))>>

\* s.split(sep): cut at every occurrence of sep
RECURSIVE Split(_, _)
Split(s, sep) ==
    LET i == IndexOf(s, sep)
    IN  IF i = 0 THEN <<s>>
        ELSE <<SubSeq(s, 1, i - 1)>> \o Split(SubSeq(s, i + 1, Len(s)), sep)

Digits == <<"0", "1", "2", "3", "4", "5", "6", "7", "8", "9">>
IsDigit(c) == \E d \in 1..Len(Digits) : Digits[d] = c
DigitValue(c) == (CHOOSE d \in 1..Len(Digits) : Digits[d] = c) - 1

RECURSIVE DecimalValue(_)
DecimalValue(s) ==
    IF Len(s) = 0 THEN 0
    ELSE DecimalValue(SubSeq(s, 1, Len(s) - 1)) * Len(Digits) + DigitValue(s[Len(s)])

\* int(s) for the strings of this model: an optional sign and decimal
\* digits; anything else raises ValueError.
IntParse(s) ==
    LET signed == Len(s) > 0 /\ s[1] \in {"+", "-"}
        body   == IF signed THEN SubSeq(s, 2, Len(s)) ELSE s
    IN  IF Len(body) = 0 \/ \E i \in 1..Len(body) : ~IsDigit(body[i])
        THEN [err |-> "ValueError", val |-> 0]
        ELSE [err |-> "",
              val |-> IF signed /\ s[1] = "-" THEN 0 - DecimalValue(body)
                      ELSE DecimalValue(body)]

\* ------------------------------------------------------------------------
\* AuthPairInterceptingMiddleware
\* A header value is [kind, items]: kind "str" (items = <<the string>>),
\* "list" (items = the list's strings) or "none" (headers.get found no
\* such header: neither a list nor a str).
\* ------------------------------------------------------------------------
StrHeader(s) == [kind |-> "str", items |-> <<s>>]
ListHeader(l) == [kind |-> "list", items |-> l]
NoHeader == [kind |-> "none", items |-> <<>>]

_read_auth_header(auth_header) ==
    LET fail(e) == [err |-> e, auth_type |-> <<>>, token |-> <<>>]
        parse(text) ==
            LET parts == SplitOnce(text, " ")
            IN  IF Len(parts) # 2 THEN fail("ValueError")
                ELSE [err |-> "", auth_type |-> parts[1], token |-> parts[2]]
    IN  IF auth_header.kind = "list"
        THEN IF Len(auth_header.items) = 0 THEN fail("IndexError")
             ELSE parse(auth_header.items[1])
        ELSE IF auth_header.kind # "str" THEN fail("ValueError")
        ELSE parse(auth_header.items[1])

_read_address_header(address_header) ==
    IF address_header.kind = "list"
    THEN IF Len(address_header.items) = 0 THEN [err |-> "IndexError", val |-> <<>>]
         ELSE [err |-> "", val |-> address_header.items[1]]
    ELSE IF address_header.kind = "str"
    THEN [err |-> "", val |-> address_header.items[1]]
    ELSE [err |-> "ValueError", val |-> <<>>]

\* a received_headers that stores the credential of any scheme
received_headers_any_scheme(headers, tok, addr) ==
    LET a == _read_auth_header(headers.authorization)
    IN  IF a.err # "" THEN [err |-> a.err, token |-> tok, address |-> addr]
        ELSE LET tok1 == Some(a.token)
                 d    == _read_address_header(headers.arrowpluginaddress)
             IN  IF d.err # "" THEN [err |-> d.err, token |-> tok1, address |-> addr]
                 ELSE [err |-> "", token |-> tok1, address |-> Some(d.val)]

\* received_headers on a middleware whose attributes are tok and addr:
\* the attributes afterwards, and the exception raised if any.  The token
\* is assigned before the address header is read.
received_headers(headers, tok, addr) ==
    LET a == _read_auth_header(headers.authorization)
    IN  IF a.err # "" THEN [err |-> a.err, token |-> tok, address |-> addr]
        ELSE LET tok1 == IF a.auth_type = BearerScheme THEN Some(a.token) ELSE tok
                 d    == _read_address_header(headers.arrowpluginaddress)
             IN  IF d.err # "" THEN [err |-> d.err, token |-> tok1, address |-> addr]
                 ELSE [err |-> "", token |-> tok1, address |-> Some(d.val)]

\* ------------------------------------------------------------------------
\* AuraDbArrowQueryRunner.call_endpoint: classification and injection
\* ------------------------------------------------------------------------
IsWriteEndpoint(endpoint) == EndsWith(endpoint, DotWrite)

\* where call_endpoint goes after `if params is None`
Classify(endpoint) ==
    IF GDS_REMOTE_PROJECTION_PROC_NAME = endpoint THEN "authenticate"
    ELSE IF IsWriteEndpoint(endpoint) THEN "lookup"
    ELSE "forward"

\* a lookup that answers "remote" whatever the graph's location
IsRemoteLocationAlways(database_location) == TRUE

\* is_remote_projected_graph: return database_location == "remote"
IsRemoteLocation(database_location) == database_location = RemoteLocation

\* the local `params` of call_endpoint: the caller's dict, or a new one
LocalParams(p) == IF IsNone(p) THEN EmptyDict ELSE p[1]

\* a projection branch that injects the host part of the address as `host`
ProjectionParamsHostOnly(p, tok, address, enc) ==
    SetItem(SetItem(SetItem(p, "token", tok), "host", Split(address, ":")[1]),
            "config", [useEncryption |-> enc])

\* the three assignments of the remote-projection branch
ProjectionParams(p, tok, address, enc) ==
    SetItem(SetItem(SetItem(p, "token", tok), "host", address),
            "config", [useEncryption |-> enc])

\* a write branch that assigns a new config holding only arrowConnectionInfo
WriteParamsNewConfig(p, tok, address, enc) ==
    LET parts == Split(address, ":")
    IN  IF Len(parts) # 2 THEN [err |-> "ValueError", params |-> p]
        ELSE LET port == IntParse(parts[2])
             IN  IF port.err # "" THEN [err |-> port.err, params |-> p]
                 ELSE IF "config" \notin Keys(p) THEN [err |-> "KeyError", params |-> p]
                 ELSE [err |-> "",
                       params |-> SetItem(p, "config",
                                   [arrowConnectionInfo |->
                                           [hostname |-> parts[1],
                                            port |-> port.val,
                                            bearerToken |-> tok,
                                            useEncryption |-> enc]])]

\* a write branch that creates the config entry when the caller gave none
\* (params.setdefault("config", {}))
WriteParamsSetDefault(p, tok, address, enc) ==
    LET parts == Split(address, ":")
    IN  IF Len(parts) # 2 THEN [err |-> "ValueError", params |-> p]
        ELSE LET port == IntParse(parts[2])
                 config == IF "config" \in Keys(p) THEN p["config"] ELSE EmptyDict
             IN  IF port.err # "" THEN [err |-> port.err, params |-> p]
                 ELSE [err |-> "",
                       params |-> SetItem(p, "config",
                                   SetItem(config, "arrowConnectionInfo",
                                           [hostname |-> parts[1],
                                            port |-> port.val,
                                            bearerToken |-> tok,
                                            useEncryption |-> enc]))]

\* the write branch: split the address, build arrowConnectionInfo (int
\* of the port first), then store it in params["config"]
WriteParams(p, tok, address, enc) ==
    LET parts == Split(address, ":")
    IN  IF Len(parts) # 2 THEN [err |-> "ValueError", params |-> p]
        ELSE LET port == IntParse(parts[2])
             IN  IF port.err # "" THEN [err |-> port.err, params |-> p]
                 ELSE IF "config" \notin Keys(p) THEN [err |-> "KeyError", params |-> p]
                 ELSE [err |-> "",
                       params |-> SetItem(p, "config",
                                   SetItem(p["config"], "arrowConnectionInfo",
                                           [hostname |-> parts[1],
                                            port |-> port.val,
                                            bearerToken |-> tok,
                                            useEncryption |-> enc]))]

\* ------------------------------------------------------------------------
\* Bounds and inputs
\* ------------------------------------------------------------------------
\* operations started on one dispatcher instance
MaxCalls == 3

\* callers of the dispatcher: one at a time in Spec, both at once in SpecConc
Callers == {1, 2}
SeqCallers == {1}

Endpoints == {GDS_REMOTE_PROJECTION_PROC_NAME, EpWrite, EpStream, EpRewrite}

ConfigFoo == [foo |-> 1]
ParamInputs ==
    { None,
      Some(EmptyDict),
      Some([graph_name |-> GraphG]),
      Some([graph_name |-> GraphG, config |-> ConfigFoo]),
      Some([config |-> ConfigFoo]),
      Some([graph_name |-> GraphG, token |-> TokenU]) }

\* the arguments call_endpoint passes through untouched
PassThrough ==
    { [type |-> "PROCEDURE", yields |-> None, body |-> None,
       database |-> None, custom_error |-> TRUE],
      [type |-> "FUNCTION", yields |-> Some(<<YieldCol>>), body |-> Some(BodyText),
       database |-> Some(DbName), custom_error |-> FALSE] }

MkCall(e, p, x) ==
    [type |-> x.type, endpoint |-> e, yields |-> x.yields, body |-> x.body,
     params |-> p, database |-> x.database, custom_error |-> x.custom_error]

CallInputs == { MkCall(e, p, x) : e \in Endpoints, p \in ParamInputs, x \in PassThrough }

\* what the delegate answers to a forwarded call
DelegateReplies ==
    { [raised |-> FALSE, value |-> "rows1"],
      [raised |-> FALSE, value |-> "rows2"],
      [raised |-> TRUE, value |-> "DelegateError"] }

\* what the delegate answers to the gds.graph.list lookup
LookupReplies ==
    { [raised |-> FALSE, location |-> RemoteLocation],
      [raised |-> FALSE, location |-> LocLocal],
      [raised |-> TRUE, location |-> <<>>] }

AuthHeaders ==
    { StrHeader(AuthBearerT1), ListHeader(<<AuthBearerT2, AuthBearerT1>>),
      StrHeader(AuthBearerSpaced), StrHeader(AuthBearerEmpty),
      StrHeader(AuthBasic), StrHeader(AuthNoSpace),
      ListHeader(<<>>), NoHeader }
AddressHeaders ==
    { StrHeader(AddrH2), ListHeader(<<AddrH3>>), StrHeader(AddrNoColon),
      StrHeader(AddrBadPort), StrHeader(AddrTwoColons), NoHeader }

\* what authenticate_basic_token meets: the transport rejects the
\* credentials, or answers with response headers
Rejected == [rejected |-> TRUE,
             headers |-> [authorization |-> NoHeader, arrowpluginaddress |-> NoHeader]]
Answered(h) == [rejected |-> FALSE, headers |-> h]
HandshakeReplies ==
    {Rejected} \cup
    { Answered([authorization |-> a, arrowpluginaddress |-> d]) :
        a \in AuthHeaders, d \in AddressHeaders }

\* ------------------------------------------------------------------------
\* State
\* ------------------------------------------------------------------------
VARIABLES
    _token,                  \* AuthPairInterceptingMiddleware._token (None: never assigned)
    _arrow_address,          \* AuthPairInterceptingMiddleware._arrow_address
    _encrypted,              \* AuraDbArrowQueryRunner._encrypted
    pc,                      \* per caller: where its running operation stands
    call,                    \* per caller: the arguments of its call_endpoint
    params,                  \* per caller: the local `params` of call_endpoint
    token,                   \* per caller: the local `token`
    aura_db_arrow_endpoint,  \* per caller: the local `aura_db_arrow_endpoint`
    lookups,                 \* per caller: gds.graph.list calls the delegate got in this call
    handshakes,              \* per caller: authenticate_basic_token calls made in this call
    forwarded,               \* per caller: call_endpoint calls the delegate got in this call
    closes,                  \* per caller: the releases attempted by its close()
    outcome,                 \* per caller: what the operation gave its caller
    nCalls,                  \* operations started so far
    delegated,               \* per caller: the pure-forwarding call the delegate got
    ctor,                    \* where AuraDbArrowQueryRunner.__init__ stands
    driver,                  \* the GraphDatabase.driver of __init__, once created
    drivers_opened,          \* GraphDatabase.driver(...) calls made so far
    status_queries,          \* internal.arrow.status calls made so far
    arrow_info,              \* __init__'s local arrow_info: the answer to the status query
    ctor_error,              \* the exception __init__ raised, if any
    _client,                 \* AuraDbArrowQueryRunner._client, once created
    namespace,               \* the namespace SystemEndpoints was built with
    _namespace,              \* SystemEndpoints._namespace
    run_queries              \* the run_query calls SystemEndpoints made

vars == <<_token, _arrow_address, _encrypted, pc, call, params, token,
          aura_db_arrow_endpoint, lookups, handshakes, forwarded, closes,
          outcome, nCalls, delegated, ctor, driver, drivers_opened,
          status_queries, arrow_info, ctor_error, _client, namespace,
          _namespace, run_queries>>

slot == <<_token, _arrow_address>>
locals == <<params, token, aura_db_arrow_endpoint>>
logs == <<lookups, handshakes, forwarded, closes>>
\* what __init__ leaves behind
construction == <<ctor, driver, drivers_opened, status_queries, arrow_info, ctor_error>>
\* the SystemEndpoints object
system == <<namespace, _namespace, run_queries>>
\* what no step of call_endpoint or close assigns
fixed == <<_encrypted, construction, system>>

NoCall == MkCall(<<>>, None,
                 [type |-> "PROCEDURE", yields |-> None, body |-> None,
                  database |-> None, custom_error |-> TRUE])

\* ------------------------------------------------------------------------
\* AuraDbArrowQueryRunner.__init__
\* The status row is [running, advertisedListenAddress], each an Optional
\* (None: Series.get finds no such field).
\* ------------------------------------------------------------------------
\* `not x` for an Optional bool and for an Optional str
FalsyBool(o) == IsNone(o) \/ ~o[1]
FalsyStr(o) == IsNone(o) \/ Len(o[1]) = 0

\* a resolver that goes on to the address without looking at `running`
ResolveTargetIgnoringRunning(row) ==
    IF FalsyStr(row.advertisedListenAddress)
    THEN [err |-> "ConnectionError", host |-> <<>>, port_string |-> <<>>]
    ELSE LET parts == Split(row.advertisedListenAddress[1], ":")
         IN  IF Len(parts) # 2
             THEN [err |-> "ValueError", host |-> <<>>, port_string |-> <<>>]
             ELSE [err |-> "", host |-> parts[1], port_string |-> parts[2]]

\* the checks on arrow_info and `host, port_string = listen_address.split(":")`
ResolveTarget(row) ==
    IF FalsyBool(row.running)
    THEN [err |-> "RuntimeError", host |-> <<>>, port_string |-> <<>>]
    ELSE IF FalsyStr(row.advertisedListenAddress)
    THEN [err |-> "ConnectionError", host |-> <<>>, port_string |-> <<>>]
    ELSE LET parts == Split(row.advertisedListenAddress[1], ":")
         IN  IF Len(parts) # 2
             THEN [err |-> "ValueError", host |-> <<>>, port_string |-> <<>>]
             ELSE [err |-> "", host |-> parts[1], port_string |-> parts[2]]

\* flight.Location.for_grpc_tls / for_grpc_tcp
Location(host, port, encrypted) ==
    [scheme |-> IF encrypted THEN "grpc+tls" ELSE "grpc+tcp", host |-> host, port |-> port]

\* the exception __init__ raises; only the RuntimeError message carries
\* the endpoint that was queried
CtorError(type, uri) ==
    [type |-> type, endpoint |-> IF type = "RuntimeError" THEN Some(uri) ELSE None]

StatusRow(running, address) == [running |-> running, advertisedListenAddress |-> address]

\* the status row and the driver behind the instance the other
\* specifications start from
ReadyRow == StatusRow(Some(TRUE), Some(AddrH1234))
ReadyUri == UriA

\* after construction: nothing stored in the middleware, no call running
Init ==
    /\ _encrypted \in BOOLEAN
    /\ ctor = "ready"
    /\ driver = Some([uri |-> ReadyUri, encrypted |-> _encrypted, open |-> FALSE])
    /\ drivers_opened = 1
    /\ status_queries = 1
    /\ arrow_info = Some(ReadyRow)
    /\ ctor_error = None
    /\ _client = Some([location |-> Location(ResolveTarget(ReadyRow).host,
                                              IntParse(ResolveTarget(ReadyRow).port_string).val,
                                              _encrypted),
                        open |-> TRUE])
    /\ delegated = [t \in Callers |-> <<>>]
    /\ namespace = NsGdsBeta
    /\ _namespace = NsGdsBeta
    /\ run_queries = <<>>
    /\ _token = None
    /\ _arrow_address = None
    /\ pc = [t \in Callers |-> "idle"]
    /\ call = [t \in Callers |-> NoCall]
    /\ params = [t \in Callers |-> EmptyDict]
    /\ token = [t \in Callers |-> None]
    /\ aura_db_arrow_endpoint = [t \in Callers |-> None]
    /\ lookups = [t \in Callers |-> <<>>]
    /\ handshakes = [t \in Callers |-> <<>>]
    /\ forwarded = [t \in Callers |-> <<>>]
    /\ closes = [t \in Callers |-> <<>>]
    /\ outcome = [t \in Callers |-> None]
    /\ nCalls = 0

Goto(t, where) == pc' = [pc EXCEPT ![t] = where]

\* an exception leaves the operation of caller t
Raise(t, e) ==
    /\ outcome' = [outcome EXCEPT ![t] = Some([raised |-> TRUE, value |-> e])]
    /\ Goto(t, "done")

\* call_endpoint is entered: `if params is None`, then the classification
CallEndpoint(t, a) ==
    /\ ctor = "ready"
    /\ pc[t] = "idle"
    /\ nCalls < MaxCalls
    /\ nCalls' = nCalls + 1
    /\ call' = [call EXCEPT ![t] = a]
    /\ params' = [params EXCEPT ![t] = LocalParams(a.params)]
    /\ Goto(t, Classify(a.endpoint))
    /\ UNCHANGED <<slot, fixed, token, aura_db_arrow_endpoint, logs, outcome, _client, delegated>>

\* a lookup that hands the delegate the whole parameter map of the call
LookupCallWithAllParams(p, r) ==
    [endpoint |-> GraphListEndpoint,
     body |-> GraphNameBody,
     yields |-> <<DatabaseLocationColumn>>,
     params |-> p,
     reply |-> r]

\* the call_procedure which is_remote_projected_graph makes on the delegate
\* (not on the dispatcher itself) for the call whose parameters are p
LookupCall(p, r) ==
    [endpoint |-> GraphListEndpoint,
     body |-> GraphNameBody,
     yields |-> <<DatabaseLocationColumn>>,
     params |-> [graph_name |-> p["graph_name"]],
     reply |-> r]

\* is_remote_projected_graph(params["graph_name"]); r is the delegate's answer
is_remote_projected_graph(t, r) ==
    /\ pc[t] = "lookup"
    /\ IF "graph_name" \notin Keys(params[t])
       THEN /\ Raise(t, "KeyError")
            /\ UNCHANGED lookups
       ELSE /\ lookups' = [lookups EXCEPT ![t] = Append(@, LookupCall(params[t], r))]
            /\ IF r.raised
               THEN Raise(t, "DelegateError")
               ELSE /\ Goto(t, IF IsRemoteLocation(r.location) THEN "authenticate"
                               ELSE "forward")
                    /\ UNCHANGED outcome
    /\ UNCHANGED <<slot, fixed, call, locals, handshakes, forwarded, closes, nCalls, _client, delegated>>

\* a _get_or_request_auth_pair that requests only when nothing is stored
\* yet, and otherwise gets the stored pair without a handshake
authenticate_unless_stored(t, r) ==
    /\ pc[t] = "authenticate"
    /\ IF ~IsNone(_token) /\ ~IsNone(_arrow_address)
       THEN /\ Goto(t, "token")
            /\ UNCHANGED <<handshakes, slot, outcome>>
       ELSE /\ handshakes' = [handshakes EXCEPT ![t] = Append(@,
                  [before |-> [token |-> _token, address |-> _arrow_address], reply |-> r])]
            /\ IF r.rejected
               THEN /\ Raise(t, "FlightUnauthenticatedError")
                    /\ UNCHANGED slot
               ELSE LET h == received_headers(r.headers, _token, _arrow_address)
                    IN  /\ _token' = h.token
                        /\ _arrow_address' = h.address
                        /\ IF h.err # ""
                           THEN Raise(t, h.err)
                           ELSE Goto(t, "token") /\ UNCHANGED outcome
    /\ UNCHANGED <<fixed, call, locals, lookups, forwarded, closes, nCalls, _client, delegated>>

\* a handshake whose failures are swallowed (try/except around it), so
\* that the call goes on with whatever the middleware holds
authenticate_swallowing(t, r) ==
    /\ pc[t] = "authenticate"
    /\ handshakes' = [handshakes EXCEPT ![t] = Append(@,
           [before |-> [token |-> _token, address |-> _arrow_address], reply |-> r])]
    /\ IF r.rejected
       THEN UNCHANGED slot
       ELSE LET h == received_headers(r.headers, _token, _arrow_address)
            IN  /\ _token' = h.token
                /\ _arrow_address' = h.address
    /\ Goto(t, "token")
    /\ UNCHANGED <<outcome, fixed, call, locals, lookups, forwarded, closes, nCalls, _client, delegated>>

\* _get_or_request_auth_pair, first statement: the handshake.  r is what
\* the transport does; its response headers go through received_headers
\* of the one middleware instance every call shares (start_call).
authenticate_basic_token(t, r) ==
    /\ pc[t] = "authenticate"
    /\ handshakes' = [handshakes EXCEPT ![t] = Append(@,
           [before |-> [token |-> _token, address |-> _arrow_address], reply |-> r])]
    /\ IF r.rejected
       THEN /\ Raise(t, "FlightUnauthenticatedError")
            /\ UNCHANGED slot
       ELSE LET h == received_headers(r.headers, _token, _arrow_address)
            IN  /\ _token' = h.token
                /\ _arrow_address' = h.address
                /\ IF h.err # ""
                   THEN Raise(t, h.err)
                   ELSE Goto(t, "token") /\ UNCHANGED outcome
    /\ UNCHANGED <<fixed, call, locals, lookups, forwarded, closes, nCalls, _client, delegated>>

\* a token() that answers the empty string when no token was stored
MiddlewareTokenDefaulting(t) ==
    /\ pc[t] = "token"
    /\ token' = [token EXCEPT ![t] = IF IsNone(_token) THEN Some(<<>>) ELSE _token]
    /\ Goto(t, "endpoint")
    /\ UNCHANGED outcome
    /\ UNCHANGED <<slot, fixed, call, params, aura_db_arrow_endpoint, logs, nCalls, _client, delegated>>

\* self._auth_pair_middleware.token(): an attribute never assigned raises
MiddlewareToken(t) ==
    /\ pc[t] = "token"
    /\ IF IsNone(_token)
       THEN Raise(t, "AttributeError") /\ UNCHANGED token
       ELSE /\ token' = [token EXCEPT ![t] = _token]
            /\ Goto(t, "endpoint")
            /\ UNCHANGED outcome
    /\ UNCHANGED <<slot, fixed, call, params, aura_db_arrow_endpoint, logs, nCalls, _client, delegated>>

\* self._auth_pair_middleware.endpoint()
MiddlewareEndpoint(t) ==
    /\ pc[t] = "endpoint"
    /\ IF IsNone(_arrow_address)
       THEN Raise(t, "AttributeError") /\ UNCHANGED aura_db_arrow_endpoint
       ELSE /\ aura_db_arrow_endpoint' = [aura_db_arrow_endpoint EXCEPT ![t] = _arrow_address]
            /\ Goto(t, "inject")
            /\ UNCHANGED outcome
    /\ UNCHANGED <<slot, fixed, call, params, token, logs, nCalls, _client, delegated>>

\* the assignments into params of the branch taken
Inject(t) ==
    /\ pc[t] = "inject"
    /\ IF GDS_REMOTE_PROJECTION_PROC_NAME = call[t].endpoint
       THEN /\ params' = [params EXCEPT ![t] =
                   ProjectionParams(@, token[t][1], aura_db_arrow_endpoint[t][1], _encrypted)]
            /\ Goto(t, "forward")
            /\ UNCHANGED outcome
       ELSE LET w == WriteParams(params[t], token[t][1], aura_db_arrow_endpoint[t][1],
                                 _encrypted)
            IN  IF w.err # ""
                THEN Raise(t, w.err) /\ UNCHANGED params
                ELSE /\ params' = [params EXCEPT ![t] = w.params]
                     /\ Goto(t, "forward")
                     /\ UNCHANGED outcome
    /\ UNCHANGED <<slot, fixed, call, token, aura_db_arrow_endpoint, logs, nCalls, _client, delegated>>

\* a forwarding call with body and database in each other's position
ForwardedArgsSwapped(a, p) ==
    [type |-> a.type, endpoint |-> a.endpoint, yields |-> a.yields, body |-> a.database,
     params |-> Some(p), database |-> a.body, custom_error |-> a.custom_error]

\* what the delegate's call_endpoint is handed, in the order of its
\* positional parameters
ForwardedArgs(a, p) ==
    [type |-> a.type, endpoint |-> a.endpoint, yields |-> a.yields, body |-> a.body,
     params |-> Some(p), database |-> a.database, custom_error |-> a.custom_error]

\* return self._fallback_query_runner.call_endpoint(...); r is the
\* delegate's answer, which is call_endpoint's own
Forward(t, r) ==
    /\ pc[t] = "forward"
    /\ forwarded' = [forwarded EXCEPT ![t] = Append(@,
           [args |-> ForwardedArgs(call[t], params[t]), reply |-> r])]
    /\ outcome' = [outcome EXCEPT ![t] = Some(r)]
    /\ Goto(t, "done")
    /\ UNCHANGED <<slot, fixed, call, locals, lookups, handshakes, closes, nCalls, _client, delegated>>

\* close(), first statement: self._client.close()
ClientClose(t, fails) ==
    /\ ctor = "ready"
    /\ pc[t] = "idle"
    /\ nCalls < MaxCalls
    /\ nCalls' = nCalls + 1
    /\ closes' = [closes EXCEPT ![t] = Append(@, "client")]
    /\ _client' = IF fails THEN _client ELSE Some([_client[1] EXCEPT !.open = FALSE])
    /\ IF fails
       THEN Raise(t, "ClientCloseError")
       ELSE Goto(t, "close_fallback") /\ UNCHANGED outcome
    /\ UNCHANGED <<slot, fixed, call, locals, lookups, handshakes, forwarded, delegated>>

\* close(), second statement: self._fallback_query_runner.close()
FallbackClose(t, fails) ==
    /\ pc[t] = "close_fallback"
    /\ closes' = [closes EXCEPT ![t] = Append(@, "fallback")]
    /\ outcome' = [outcome EXCEPT ![t] =
           Some(IF fails THEN [raised |-> TRUE, value |-> "FallbackCloseError"]
                ELSE [raised |-> FALSE, value |-> "None"])]
    /\ Goto(t, "done")
    /\ UNCHANGED <<slot, fixed, call, locals, lookups, handshakes, forwarded, nCalls, _client, delegated>>

\* the operation is over: its caller has the result or the exception
Return(t) ==
    /\ pc[t] = "done"
    /\ Goto(t, "idle")
    /\ call' = [call EXCEPT ![t] = NoCall]
    /\ params' = [params EXCEPT ![t] = EmptyDict]
    /\ token' = [token EXCEPT ![t] = None]
    /\ aura_db_arrow_endpoint' = [aura_db_arrow_endpoint EXCEPT ![t] = None]
    /\ lookups' = [lookups EXCEPT ![t] = <<>>]
    /\ handshakes' = [handshakes EXCEPT ![t] = <<>>]
    /\ forwarded' = [forwarded EXCEPT ![t] = <<>>]
    /\ closes' = [closes EXCEPT ![t] = <<>>]
    /\ delegated' = [delegated EXCEPT ![t] = <<>>]
    /\ outcome' = [outcome EXCEPT ![t] = None]
    /\ UNCHANGED <<slot, fixed, nCalls, _client>>

\* ------------------------------------------------------------------------
\* One caller at a time (the scheduling the source is written for)
\* ------------------------------------------------------------------------
Next ==
    \/ \E t \in SeqCallers, a \in CallInputs : CallEndpoint(t, a)
    \/ \E t \in SeqCallers, r \in LookupReplies : is_remote_projected_graph(t, r)
    \/ \E t \in SeqCallers, r \in HandshakeReplies : authenticate_basic_token(t, r)
    \/ \E t \in SeqCallers : MiddlewareToken(t)
    \/ \E t \in SeqCallers : MiddlewareEndpoint(t)
    \/ \E t \in SeqCallers : Inject(t)
    \/ \E t \in SeqCallers, r \in DelegateReplies : Forward(t, r)
    \/ \E t \in SeqCallers, fails \in BOOLEAN : ClientClose(t, fails)
    \/ \E t \in SeqCallers, fails \in BOOLEAN : FallbackClose(t, fails)
    \/ \E t \in SeqCallers : Return(t)

Spec == Init /\ [][Next]_vars

\* ------------------------------------------------------------------------
\* Two callers on the same instance at once: every statement-level step of
\* one may come between two steps of the other (no lock in the source)
\* ------------------------------------------------------------------------
ConcCallInputs ==
    { MkCall(e, Some([graph_name |-> GraphG, config |-> ConfigFoo]),
             [type |-> "PROCEDURE", yields |-> None, body |-> None,
              database |-> None, custom_error |-> TRUE]) :
        e \in {GDS_REMOTE_PROJECTION_PROC_NAME, EpWrite} }
ConcLookupReplies == { [raised |-> FALSE, location |-> RemoteLocation] }
ConcHandshakeReplies ==
    { Answered([authorization |-> StrHeader(AuthBearerT1),
                arrowpluginaddress |-> StrHeader(AddrH2)]),
      Answered([authorization |-> StrHeader(AuthBearerT2),
                arrowpluginaddress |-> StrHeader(AddrH3)]) }
ConcDelegateReplies == { [raised |-> FALSE, value |-> "rows1"] }

NextConc ==
    \/ \E t \in Callers, a \in ConcCallInputs : CallEndpoint(t, a)
    \/ \E t \in Callers, r \in ConcLookupReplies : is_remote_projected_graph(t, r)
    \/ \E t \in Callers, r \in ConcHandshakeReplies : authenticate_basic_token(t, r)
    \/ \E t \in Callers : MiddlewareToken(t)
    \/ \E t \in Callers : MiddlewareEndpoint(t)
    \/ \E t \in Callers : Inject(t)
    \/ \E t \in Callers, r \in ConcDelegateReplies : Forward(t, r)
    \/ \E t \in Callers : ClientClose(t, FALSE)
    \/ \E t \in Callers : FallbackClose(t, FALSE)
    \/ \E t \in Callers : Return(t)

SpecConc == Init /\ [][NextConc]_vars

\* ------------------------------------------------------------------------
\* Construction followed by the life of the instance
\* ------------------------------------------------------------------------
Uris == {UriA, UriB}
StatusReplies ==
    { [raised |-> TRUE, row |-> StatusRow(None, None)] } \cup
    { [raised |-> FALSE, row |-> StatusRow(r, a)] :
        r \in {None, Some(FALSE), Some(TRUE)},
        a \in {None, Some(<<>>), Some(AddrH1234), Some(AddrIp), Some(AddrNoColon),
               Some(AddrBadPort), Some(AddrTwoColons)} }

\* __init__ up to the entry of the with block: GraphDatabase.driver(...)
DriverOpen(uri, encrypted) ==
    /\ ctor = "new"
    /\ ctor' = "with"
    /\ driver' = Some([uri |-> uri, encrypted |-> encrypted, open |-> TRUE])
    /\ drivers_opened' = drivers_opened + 1
    /\ UNCHANGED <<slot, _encrypted, system, status_queries, arrow_info, ctor_error,
                   _client, pc, call, locals, logs, outcome, nCalls, delegated>>

\* a with block that fetches the status row once for each field it reads
WithBodyQueryingTwice(reply, client_fails) ==
    /\ ctor = "with"
    /\ ctor' = "exit"
    /\ status_queries' = status_queries + 2
    /\ IF reply.raised
       THEN /\ ctor_error' = Some(CtorError("Neo4jError", driver[1].uri))
            /\ UNCHANGED <<arrow_info, _encrypted, _client>>
       ELSE LET target == ResolveTarget(reply.row)
                port == IntParse(target.port_string)
            IN  /\ arrow_info' = Some(reply.row)
                /\ IF target.err # ""
                   THEN /\ ctor_error' = Some(CtorError(target.err, driver[1].uri))
                        /\ UNCHANGED <<_encrypted, _client>>
                   ELSE /\ _encrypted' = driver[1].encrypted
                        /\ IF port.err # ""
                           THEN /\ ctor_error' = Some(CtorError(port.err, driver[1].uri))
                                /\ UNCHANGED _client
                           ELSE IF client_fails
                           THEN /\ ctor_error' = Some(CtorError("FlightError", driver[1].uri))
                                /\ UNCHANGED _client
                           ELSE /\ _client' = Some([location |->
                                        Location(target.host, port.val, driver[1].encrypted),
                                      open |-> TRUE])
                                /\ UNCHANGED ctor_error
    /\ UNCHANGED <<slot, system, driver, drivers_opened,
                   pc, call, locals, logs, outcome, nCalls, delegated>>

\* the body of the with block: the status query, the checks on its row,
\* the middleware, self._encrypted, the location (int of the port) and the
\* FlightClient; reply is the answer to the query, client_fails whether
\* flight.FlightClient(...) raises
WithBody(reply, client_fails) ==
    /\ ctor = "with"
    /\ ctor' = "exit"
    /\ status_queries' = status_queries + 1
    /\ IF reply.raised
       THEN /\ ctor_error' = Some(CtorError("Neo4jError", driver[1].uri))
            /\ UNCHANGED <<arrow_info, _encrypted, _client>>
       ELSE LET target == ResolveTarget(reply.row)
                port == IntParse(target.port_string)
            IN  /\ arrow_info' = Some(reply.row)
                /\ IF target.err # ""
                   THEN /\ ctor_error' = Some(CtorError(target.err, driver[1].uri))
                        /\ UNCHANGED <<_encrypted, _client>>
                   ELSE /\ _encrypted' = driver[1].encrypted
                        /\ IF port.err # ""
                           THEN /\ ctor_error' = Some(CtorError(port.err, driver[1].uri))
                                /\ UNCHANGED _client
                           ELSE IF client_fails
                           THEN /\ ctor_error' = Some(CtorError("FlightError", driver[1].uri))
                                /\ UNCHANGED _client
                           ELSE /\ _client' = Some([location |->
                                        Location(target.host, port.val, driver[1].encrypted),
                                      open |-> TRUE])
                                /\ UNCHANGED ctor_error
    /\ UNCHANGED <<slot, system, driver, drivers_opened,
                   pc, call, locals, logs, outcome, nCalls, delegated>>

\* a construction that closes the driver at the end of the body only
\* (driver.close() as last statement instead of the with statement)
WithExitOnSuccessOnly ==
    /\ ctor = "exit"
    /\ ctor' = IF IsNone(ctor_error) THEN "ready" ELSE "failed"
    /\ driver' = IF IsNone(ctor_error) THEN Some([driver[1] EXCEPT !.open = FALSE])
                  ELSE driver
    /\ UNCHANGED <<slot, _encrypted, system, drivers_opened, status_queries, arrow_info,
                   ctor_error, _client, pc, call, locals, logs, outcome, nCalls, delegated>>

\* the exit of the with block, normal or by exception: the driver is
\* closed; then __init__ returns or the exception reaches its caller
WithExit ==
    /\ ctor = "exit"
    /\ ctor' = IF IsNone(ctor_error) THEN "ready" ELSE "failed"
    /\ driver' = Some([driver[1] EXCEPT !.open = FALSE])
    /\ UNCHANGED <<slot, _encrypted, system, drivers_opened, status_queries, arrow_info,
                   ctor_error, _client, pc, call, locals, logs, outcome, nCalls, delegated>>

\* run_cypher, set_database, set_bookmarks, bookmarks, last_bookmarks,
\* database, create_graph_constructor: one call of the same name on the
\* delegate, whose answer is returned
ForwardingMethods ==
    {"run_cypher", "set_database", "set_bookmarks", "bookmarks", "last_bookmarks",
     "database", "create_graph_constructor"}
PureForward(t, method, r) ==
    /\ ctor = "ready"
    /\ pc[t] = "idle"
    /\ nCalls < MaxCalls
    /\ nCalls' = nCalls + 1
    /\ delegated' = [delegated EXCEPT ![t] = <<method>>]
    /\ outcome' = [outcome EXCEPT ![t] = Some(r)]
    /\ Goto(t, "done")
    /\ UNCHANGED <<slot, fixed, _client, call, locals, logs>>

\* before __init__ runs; self._encrypted does not exist yet (FALSE stands
\* for the attribute that is not there)
InitLife ==
    /\ _encrypted = FALSE
    /\ ctor = "new"
    /\ driver = None
    /\ drivers_opened = 0
    /\ status_queries = 0
    /\ arrow_info = None
    /\ ctor_error = None
    /\ _client = None
    /\ delegated = [t \in Callers |-> <<>>]
    /\ namespace = NsGdsBeta
    /\ _namespace = NsGdsBeta
    /\ run_queries = <<>>
    /\ _token = None
    /\ _arrow_address = None
    /\ pc = [t \in Callers |-> "idle"]
    /\ call = [t \in Callers |-> NoCall]
    /\ params = [t \in Callers |-> EmptyDict]
    /\ token = [t \in Callers |-> None]
    /\ aura_db_arrow_endpoint = [t \in Callers |-> None]
    /\ lookups = [t \in Callers |-> <<>>]
    /\ handshakes = [t \in Callers |-> <<>>]
    /\ forwarded = [t \in Callers |-> <<>>]
    /\ closes = [t \in Callers |-> <<>>]
    /\ outcome = [t \in Callers |-> None]
    /\ nCalls = 0

LifeCallInputs ==
    { MkCall(e, Some([graph_name |-> GraphG, config |-> ConfigFoo]),
             [type |-> "PROCEDURE", yields |-> None, body |-> None,
              database |-> None, custom_error |-> TRUE]) :
        e \in {GDS_REMOTE_PROJECTION_PROC_NAME, EpWrite, EpStream} }
LifeHandshakeReplies ==
    { Rejected,
      Answered([authorization |-> StrHeader(AuthBearerT1),
                arrowpluginaddress |-> StrHeader(AddrH2)]),
      Answered([authorization |-> StrHeader(AuthBasic),
                arrowpluginaddress |-> ListHeader(<<AddrH3>>)]) }

NextLife ==
    \/ \E uri \in Uris, encrypted \in BOOLEAN : DriverOpen(uri, encrypted)
    \/ \E reply \in StatusReplies, client_fails \in BOOLEAN : WithBody(reply, client_fails)
    \/ WithExit
    \/ \E t \in SeqCallers, a \in LifeCallInputs : CallEndpoint(t, a)
    \/ \E t \in SeqCallers, r \in LookupReplies : is_remote_projected_graph(t, r)
    \/ \E t \in SeqCallers, r \in LifeHandshakeReplies : authenticate_basic_token(t, r)
    \/ \E t \in SeqCallers : MiddlewareToken(t)
    \/ \E t \in SeqCallers : MiddlewareEndpoint(t)
    \/ \E t \in SeqCallers : Inject(t)
    \/ \E t \in SeqCallers, r \in ConcDelegateReplies : Forward(t, r)
    \/ \E t \in SeqCallers, m \in ForwardingMethods, r \in ConcDelegateReplies :
           PureForward(t, m, r)
    \/ \E t \in SeqCallers, fails \in BOOLEAN : ClientClose(t, fails)
    \/ \E t \in SeqCallers, fails \in BOOLEAN : FallbackClose(t, fails)
    \/ \E t \in SeqCallers : Return(t)

SpecLife == InitLife /\ [][NextLife]_vars

\* ------------------------------------------------------------------------
\* gdsclient/system/system_endpoints.py: SystemEndpoints
\* ------------------------------------------------------------------------
CallText == <<"C", "A", "L", "L", " ">>
DotListProgress == <<".", "l", "i", "s", "t", "P", "r", "o", "g", "r", "e", "s", "s">>
JobIdArgs == <<"(", "$", "j", "o", "b", "_", "i", "d", ")">>
NoArgs == <<"(", ")">>

\* listProgress(job_id): job_id None or a string; `if job_id` is false for
\* None and for the empty string
listProgress(job_id) ==
    /\ nCalls < MaxCalls
    /\ nCalls' = nCalls + 1
    /\ _namespace' = _namespace \o DotListProgress
    /\ run_queries' = Append(run_queries,
           IF ~FalsyStr(job_id)
           THEN [query |-> CallText \o _namespace' \o JobIdArgs,
                 params |-> [job_id |-> job_id[1]]]
           ELSE [query |-> CallText \o _namespace' \o NoArgs,
                 params |-> EmptyDict])
    /\ UNCHANGED <<slot, _encrypted, construction, _client, namespace,
                   pc, call, locals, logs, outcome, delegated>>

Namespaces == {NsGds, NsGdsBeta, NsGdsAlpha}
JobIds == {None, Some(<<>>), Some(JobId), Some(JobId2)}

\* a SystemEndpoints object just built with one of the namespaces
InitSys ==
    /\ _encrypted = FALSE
    /\ ctor = "ready"
    /\ driver = Some([uri |-> ReadyUri, encrypted |-> _encrypted, open |-> FALSE])
    /\ drivers_opened = 1
    /\ status_queries = 1
    /\ arrow_info = Some(ReadyRow)
    /\ ctor_error = None
    /\ _client = Some([location |-> Location(ResolveTarget(ReadyRow).host,
                                              IntParse(ResolveTarget(ReadyRow).port_string).val,
                                              _encrypted),
                        open |-> TRUE])
    /\ delegated = [t \in Callers |-> <<>>]
    /\ namespace \in Namespaces
    /\ _namespace = namespace
    /\ run_queries = <<>>
    /\ _token = None
    /\ _arrow_address = None
    /\ pc = [t \in Callers |-> "idle"]
    /\ call = [t \in Callers |-> NoCall]
    /\ params = [t \in Callers |-> EmptyDict]
    /\ token = [t \in Callers |-> None]
    /\ aura_db_arrow_endpoint = [t \in Callers |-> None]
    /\ lookups = [t \in Callers |-> <<>>]
    /\ handshakes = [t \in Callers |-> <<>>]
    /\ forwarded = [t \in Callers |-> <<>>]
    /\ closes = [t \in Callers |-> <<>>]
    /\ outcome = [t \in Callers |-> None]
    /\ nCalls = 0

NextSys == \E job_id \in JobIds : listProgress(job_id)

SpecSys == InitSys /\ [][NextSys]_vars

\* ------------------------------------------------------------------------
\* Vocabulary of the properties
\* ------------------------------------------------------------------------
\* caller t is inside call_endpoint, past its entry
InCall(t) == pc[t] \notin {"idle", "close_fallback"} /\ closes[t] = <<>>

\* the caller's parameter dict as it was handed in ({} for None)
GivenParams(t) == LocalParams(call[t].params)

IsProjection(t) == InCall(t) /\ call[t].endpoint = GDS_REMOTE_PROJECTION_PROC_NAME

\* a .write call whose lookup answered "remote"
IsRemoteWrite(t) ==
    /\ InCall(t)
    /\ call[t].endpoint # GDS_REMOTE_PROJECTION_PROC_NAME
    /\ EndsWith(call[t].endpoint, DotWrite)
    /\ Len(lookups[t]) = 1
    /\ ~lookups[t][1].reply.raised
    /\ lookups[t][1].reply.location = RemoteLocation

IsPrivileged(t) == IsProjection(t) \/ IsRemoteWrite(t)

IsOrdinary(t) ==
    /\ InCall(t)
    /\ call[t].endpoint # GDS_REMOTE_PROJECTION_PROC_NAME
    /\ ~EndsWith(call[t].endpoint, DotWrite)

WasForwarded(t) == Len(forwarded[t]) > 0
ForwardedParams(t) == forwarded[t][1].args.params[1]

\* the bearer token carried by the response of handshake h, if any
HandshakeToken(h) ==
    LET a == h.reply.headers.authorization
        text == IF a.kind \in {"str", "list"} /\ Len(a.items) > 0 THEN a.items[1] ELSE <<>>
        n == Len(BearerScheme)
    IN  IF ~h.reply.rejected /\ Len(text) > n /\ SubSeq(text, 1, n + 1) = BearerScheme \o <<" ">>
        THEN Some(SubSeq(text, n + 2, Len(text)))
        ELSE None

\* the address carried by the response of handshake h, if any
HandshakeAddress(h) ==
    LET d == h.reply.headers.arrowpluginaddress
    IN  IF ~h.reply.rejected /\ d.kind \in {"str", "list"} /\ Len(d.items) > 0
        THEN Some(d.items[1])
        ELSE None

\* the token the delegate was handed in a privileged call
InjectedToken(t) ==
    IF call[t].endpoint = GDS_REMOTE_PROJECTION_PROC_NAME
    THEN ForwardedParams(t)["token"]
    ELSE ForwardedParams(t)["config"]["arrowConnectionInfo"].bearerToken

\* ------------------------------------------------------------------------
\* C1 - token freshness: a privileged call that is forwarded has made one
\* handshake of its own, and the token the delegate gets is the token which
\* the response of that handshake carried, not one stored earlier.
\* Stated as in the specification; the code violates it when the response
\* of the call's handshake carries a scheme other than Bearer.
\* ------------------------------------------------------------------------
C1_TokenFreshness ==
    \A t \in Callers :
        (IsPrivileged(t) /\ WasForwarded(t)) =>
            /\ Len(handshakes[t]) = 1
            /\ HandshakeToken(handshakes[t][1]) = Some(InjectedToken(t))

\* ------------------------------------------------------------------------
\* C2 - whenever the delegate has received gds.graph.project.remoteDb, the
\* same call has made a handshake before, which the transport accepted,
\* whatever the middleware held when the call started.
\* ------------------------------------------------------------------------
C2_HandshakeBeforeProjection ==
    \A t \in Callers :
        \A i \in 1..Len(forwarded[t]) :
            forwarded[t][i].args.endpoint = GDS_REMOTE_PROJECTION_PROC_NAME =>
                /\ Len(handshakes[t]) = 1
                /\ ~handshakes[t][1].reply.rejected

\* a projection call forwarded by a dispatcher that already held a token
\* and an address when the call made its handshake
C2_Witness ==
    \E t \in Callers :
        /\ IsProjection(t) /\ WasForwarded(t)
        /\ Len(handshakes[t]) = 1
        /\ ~IsNone(handshakes[t][1].before.token)
        /\ ~IsNone(handshakes[t][1].before.address)

\* a finished call_endpoint of caller t
CallDone(t) == pc[t] = "done" /\ closes[t] = <<>>

IsWriteCall(t) == InCall(t) /\ EndsWith(call[t].endpoint, DotWrite)

\* the lookup of caller t's call got an answer other than "remote"
LookupSaidNotRemote(t) ==
    /\ Len(lookups[t]) = 1
    /\ ~lookups[t][1].reply.raised
    /\ lookups[t][1].reply.location # RemoteLocation

\* no handshake, and the delegate got the caller's parameters as they were
ForwardedUntouched(t) ==
    /\ handshakes[t] = <<>>
    /\ CallDone(t) =>
          /\ Len(forwarded[t]) = 1
          /\ forwarded[t][1].args.params = call[t].params

\* ------------------------------------------------------------------------
\* C3 as stated - every finished call_endpoint on an endpoint ending in
\* .write has issued the gds.graph.list lookup exactly once, and when the
\* location returned was not "remote" it made no handshake and forwarded
\* the caller's parameters unmodified.
\* ------------------------------------------------------------------------
C3_LookupOncePerWrite ==
    \A t \in Callers :
        (IsWriteCall(t) /\ CallDone(t)) =>
            /\ Len(lookups[t]) = 1
            /\ LookupSaidNotRemote(t) => ForwardedUntouched(t)

\* ------------------------------------------------------------------------
\* C3 as amended - a .write call whose parameters hold graph_name issues
\* the lookup exactly once (never twice, and once as soon as it is past the
\* lookup); when the location returned was not "remote" it makes no
\* handshake and forwards the caller's parameters unmodified.  A .write
\* call without graph_name raises KeyError with no lookup, no handshake
\* and nothing forwarded.
\* ------------------------------------------------------------------------
C3_LookupOncePerWriteWithGraphName ==
    \A t \in Callers :
        IsWriteCall(t) =>
            /\ Len(lookups[t]) <= 1
            /\ lookups[t] # <<>> =>
                  /\ lookups[t][1].endpoint = GraphListEndpoint
                  /\ lookups[t][1].params = [graph_name |-> GivenParams(t)["graph_name"]]
            /\ ("graph_name" \in Keys(GivenParams(t)) /\ pc[t] # "lookup") =>
                  Len(lookups[t]) = 1
            /\ ("graph_name" \notin Keys(GivenParams(t)) /\ pc[t] # "lookup") =>
                  /\ lookups[t] = <<>> /\ handshakes[t] = <<>> /\ forwarded[t] = <<>>
                  /\ outcome[t] = Some([raised |-> TRUE, value |-> "KeyError"])
            /\ LookupSaidNotRemote(t) => ForwardedUntouched(t)

\* a finished .write call on a graph that is not remote: one lookup, the
\* call forwarded
C3_Witness ==
    \E t \in Callers :
        /\ IsWriteCall(t) /\ CallDone(t)
        /\ LookupSaidNotRemote(t)
        /\ Len(forwarded[t]) = 1
        /\ "config" \in Keys(ForwardedParams(t))

\* ------------------------------------------------------------------------
\* C4 as stated - a finished call on an ordinary endpoint has handed the
\* delegate exactly the arguments it received, the parameter map included
\* (also when the caller passed none), with no handshake and no lookup,
\* and has given its caller what the delegate answered.
\* ------------------------------------------------------------------------
C4_OrdinaryForwardsVerbatim ==
    \A t \in Callers :
        (IsOrdinary(t) /\ CallDone(t)) =>
            /\ Len(forwarded[t]) = 1
            /\ forwarded[t][1].args = call[t]
            /\ handshakes[t] = <<>> /\ lookups[t] = <<>>
            /\ outcome[t] = Some(forwarded[t][1].reply)

\* ------------------------------------------------------------------------
\* C4 as amended - a finished call on an ordinary endpoint has handed the
\* delegate the type, endpoint, yields, body, database and custom_error it
\* received and a parameter map with the caller's keys and values and no
\* other key: the caller's map, or an empty map when the caller passed
\* none (the delegate never gets None).  No handshake, no lookup, and the
\* caller gets what the delegate answered.
\* ------------------------------------------------------------------------
C4_OrdinaryForwardsVerbatimOrEmptyMap ==
    \A t \in Callers :
        (IsOrdinary(t) /\ CallDone(t)) =>
            /\ Len(forwarded[t]) = 1
            /\ forwarded[t][1].args = [call[t] EXCEPT !.params =
                   IF IsNone(call[t].params) THEN Some(EmptyDict) ELSE call[t].params]
            /\ handshakes[t] = <<>> /\ lookups[t] = <<>>
            /\ outcome[t] = Some(forwarded[t][1].reply)

\* a finished ordinary call that carried parameters, a body and a database
C4_Witness ==
    \E t \in Callers :
        /\ IsOrdinary(t) /\ CallDone(t)
        /\ call[t].endpoint = EpRewrite
        /\ ~IsNone(call[t].params) /\ Keys(call[t].params[1]) # {}
        /\ call[t].body = Some(BodyText) /\ call[t].database = Some(DbName)
        /\ Len(forwarded[t]) = 1

\* ------------------------------------------------------------------------
\* C5 - the authenticate -> read sequence is a critical section: while a
\* caller stands between its authenticate and its reads of token and
\* endpoint, no step changes the shared token/address slot.
\* Stated as in the specification; the code takes no lock.
\* ------------------------------------------------------------------------
C5_CriticalSection ==
    [][ \A t \in Callers :
            pc[t] \in {"token", "endpoint"} =>
                (_token' = _token /\ _arrow_address' = _arrow_address) ]_vars

\* the one handshake of caller t's call
OwnHandshake(t) == handshakes[t][1]

\* ------------------------------------------------------------------------
\* C6 - projection injection: when gds.graph.project.remoteDb is forwarded
\* and the call's handshake yielded token T and address A, the delegate's
\* parameter map has every key the caller supplied (the values of the keys
\* other than token, host and config unchanged), token = T, host = A
\* unsplit, and config = {useEncryption: the flag set at construction}.
\* ------------------------------------------------------------------------
C6_ProjectionInjection ==
    \A t \in Callers :
        ( /\ IsProjection(t) /\ WasForwarded(t)
          /\ Len(handshakes[t]) = 1
          /\ ~IsNone(HandshakeToken(OwnHandshake(t)))
          /\ ~IsNone(HandshakeAddress(OwnHandshake(t))) ) =>
            LET m == ForwardedParams(t)
                given == GivenParams(t)
            IN  /\ Keys(m) = Keys(given) \cup {"token", "host", "config"}
                /\ \A k \in Keys(given) \ {"token", "host", "config"} : m[k] = given[k]
                /\ m["token"] = HandshakeToken(OwnHandshake(t))[1]
                /\ m["host"] = HandshakeAddress(OwnHandshake(t))[1]
                /\ Keys(m["config"]) = {"useEncryption"}
                /\ m["config"]["useEncryption"] = _encrypted

\* Scenario C with a second caller-supplied key: {graph_name: "g", token:
\* "U"} forwarded after a handshake yielding a token and the address "h2:5"
C6_Witness ==
    \E t \in Callers :
        /\ IsProjection(t) /\ WasForwarded(t)
        /\ call[t].params = Some([graph_name |-> GraphG, token |-> TokenU])
        /\ HandshakeAddress(OwnHandshake(t)) = Some(AddrH2)
        /\ ForwardedParams(t)["host"] = AddrH2
        /\ ForwardedParams(t)["graph_name"] = GraphG
        /\ ForwardedParams(t)["token"] = <<"T", "1">>

\* host and port of the well-formed addresses of this model
IsHostPort(address) == address \in {AddrH2, AddrH3}
HostOf(address) == IF address = AddrH2 THEN <<"h", "2">> ELSE <<"h", "3">>
PortOf(address) == IF address = AddrH2 THEN 5 ELSE 77

\* ------------------------------------------------------------------------
\* C7 - write injection: when a .write call on a remote graph is
\* forwarded, its parameters had a config and its handshake yielded token
\* T and address host:port; the delegate's config keeps every key it had
\* and also holds arrowConnectionInfo = {hostname: host, port: the port as
\* an integer, bearerToken: T, useEncryption: the flag}; the top-level keys
\* are the caller's (no token, no host added).
\* ------------------------------------------------------------------------
C7_WriteInjection ==
    \A t \in Callers :
        ( /\ IsRemoteWrite(t) /\ WasForwarded(t)
          /\ Len(handshakes[t]) = 1
          /\ ~IsNone(HandshakeToken(OwnHandshake(t)))
          /\ ~IsNone(HandshakeAddress(OwnHandshake(t))) ) =>
            LET m == ForwardedParams(t)
                given == GivenParams(t)
                address == HandshakeAddress(OwnHandshake(t))[1]
            IN  /\ IsHostPort(address)
                /\ "config" \in Keys(given)
                /\ Keys(m) = Keys(given)
                /\ \A k \in Keys(given) \ {"config"} : m[k] = given[k]
                /\ Keys(m["config"]) = Keys(given["config"]) \cup {"arrowConnectionInfo"}
                /\ \A k \in Keys(given["config"]) \ {"arrowConnectionInfo"} :
                       m["config"][k] = given["config"][k]
                /\ m["config"]["arrowConnectionInfo"] =
                       [hostname |-> HostOf(address),
                        port |-> PortOf(address),
                        bearerToken |-> HandshakeToken(OwnHandshake(t))[1],
                        useEncryption |-> _encrypted]

\* Scenario D: x.write on a remote graph with config {foo: 1}, forwarded
\* after a handshake yielding the address "h2:5"
C7_Witness ==
    \E t \in Callers :
        /\ IsRemoteWrite(t) /\ WasForwarded(t)
        /\ call[t].endpoint = EpWrite
        /\ GivenParams(t)["config"] = ConfigFoo
        /\ HandshakeAddress(OwnHandshake(t)) = Some(AddrH2)
        /\ ForwardedParams(t)["config"]["foo"] = 1
        /\ ForwardedParams(t)["config"]["arrowConnectionInfo"].port = 5

\* ------------------------------------------------------------------------
\* C8 - contract violation: a finished .write call on a remote graph whose
\* parameters had no config has raised to its caller, was not forwarded,
\* and its parameter map still has exactly the keys the caller supplied.
\* ------------------------------------------------------------------------
C8_MissingConfigFails ==
    \A t \in Callers :
        (IsRemoteWrite(t) /\ CallDone(t) /\ "config" \notin Keys(GivenParams(t))) =>
            /\ ~IsNone(outcome[t]) /\ outcome[t][1].raised
            /\ forwarded[t] = <<>>
            /\ Keys(params[t]) = Keys(GivenParams(t))
            /\ \A k \in Keys(params[t]) : params[t][k] = GivenParams(t)[k]

\* such a call whose handshake went well and yielded a well-formed
\* address: it is the missing config that made it fail
C8_Witness ==
    \E t \in Callers :
        /\ IsRemoteWrite(t) /\ CallDone(t) /\ "config" \notin Keys(GivenParams(t))
        /\ Len(handshakes[t]) = 1
        /\ ~IsNone(token[t])
        /\ aura_db_arrow_endpoint[t] = Some(AddrH3)
        /\ outcome[t] = Some([raised |-> TRUE, value |-> "KeyError"])

\* ------------------------------------------------------------------------
\* C9 - a finished close() has attempted both releases, the transport
\* client first and the delegate second, also when the first failed.
\* Stated as in the specification; in the code an exception of
\* self._client.close() leaves close() before the delegate is closed.
\* ------------------------------------------------------------------------
C9_CloseAttemptsBoth ==
    \A t \in Callers :
        (pc[t] = "done" /\ closes[t] # <<>>) => closes[t] = <<"client", "fallback">>

\* the handshake h of a call failed: the transport rejected the
\* credentials, or received_headers raised on the response headers
HandshakeFailed(h) ==
    \/ h.reply.rejected
    \/ received_headers(h.reply.headers, h.before.token, h.before.address).err # ""

BodyRan == ctor \in {"exit", "ready", "failed"}

\* ------------------------------------------------------------------------
\* C11 - construction fails fast: when the status row has running false or
\* absent, __init__ raises the RuntimeError that names the queried endpoint;
\* when running is true and advertisedListenAddress is absent, it raises
\* the ConnectionError; in both cases no FlightClient was created, the
\* instance never becomes usable, and it has made no handshake and no call
\* on the delegate.
\* ------------------------------------------------------------------------
C11_ConstructionFailsFast ==
    (BodyRan /\ ~IsNone(arrow_info)) =>
        LET row == arrow_info[1]
            notRunning == row.running \in {None, Some(FALSE)}
            noAddress == row.running = Some(TRUE) /\ row.advertisedListenAddress = None
        IN  /\ notRunning =>
                ctor_error = Some([type |-> "RuntimeError", endpoint |-> Some(driver[1].uri)])
            /\ noAddress => (~IsNone(ctor_error) /\ ctor_error[1].type = "ConnectionError")
            /\ (notRunning \/ noAddress) =>
                /\ IsNone(_client)
                /\ ctor # "ready"
                /\ nCalls = 0
                /\ \A t \in Callers :
                      /\ pc[t] = "idle"
                      /\ handshakes[t] = <<>> /\ lookups[t] = <<>>
                      /\ forwarded[t] = <<>> /\ delegated[t] = <<>> /\ closes[t] = <<>>

\* a construction that failed on a row without `running` although the row
\* had a usable address
C11_Witness ==
    /\ ctor = "failed"
    /\ arrow_info = Some(StatusRow(None, Some(AddrH1234)))
    /\ ctor_error = Some([type |-> "RuntimeError", endpoint |-> Some(driver[1].uri)])

\* the dict the caller of call_endpoint holds after the call: `params` of
\* the method is the caller's own object unless the caller passed None
CallerVisibleMap(t) == IF IsNone(call[t].params) THEN None ELSE Some(params[t])

\* m carries tok where the two privileged branches put a token
HoldsToken(m, tok) ==
    \/ "token" \in Keys(m) /\ m["token"] = tok
    \/ /\ "config" \in Keys(m)
       /\ "arrowConnectionInfo" \in Keys(m["config"])
       /\ m["config"]["arrowConnectionInfo"].bearerToken = tok

\* ------------------------------------------------------------------------
\* C12 - the caller never sees raw credentials: after a privileged call
\* that was forwarded, the parameter map the caller passed does not hold
\* the bearer token which the delegate was handed.
\* Stated as in the specification; the code writes the token into the
\* caller's own map.
\* ------------------------------------------------------------------------
C12_CallerNeverSeesToken ==
    \A t \in Callers :
        (CallDone(t) /\ IsPrivileged(t) /\ WasForwarded(t) /\ ~IsNone(CallerVisibleMap(t))) =>
            ~HoldsToken(CallerVisibleMap(t)[1], InjectedToken(t))

\* the procedure name the claim gives: the namespace the object was built
\* with, followed by one .listProgress
ListProgressName == namespace \o DotListProgress

\* ------------------------------------------------------------------------
\* C13 - for a SystemEndpoints object built with namespace ns, every
\* listProgress call of any sequence of calls has issued exactly one query,
\* and that query is `CALL ns.listProgress()` with an empty parameter map
\* or `CALL ns.listProgress($job_id)` with a parameter map whose only key
\* is job_id: the procedure name is ns followed by one .listProgress.
\* Stated as in the specification; the code violates it from the second
\* call on one object.
\* ------------------------------------------------------------------------
C13_ListProgressQuery ==
    /\ Len(run_queries) = nCalls
    /\ \A i \in 1..Len(run_queries) :
          \/ /\ run_queries[i].query = CallText \o ListProgressName \o NoArgs
             /\ Keys(run_queries[i].params) = {}
          \/ /\ run_queries[i].query = CallText \o ListProgressName \o JobIdArgs
             /\ Keys(run_queries[i].params) = {"job_id"}

\* ------------------------------------------------------------------------
\* C14 - the gds.graph.list lookup of a .write call is an ordinary call on
\* the delegate: the step that issues it makes no handshake and leaves the
\* middleware alone, it is the only lookup of the call, it is not handed to
\* the dispatcher's own call_endpoint (nothing is classified or forwarded
\* by it), and its parameter map is exactly {graph_name: <name>}, without
\* token, host or config.
\* ------------------------------------------------------------------------
C14_LookupIsOrdinary ==
    [][\A t \in Callers :
          (lookups'[t] # lookups[t] /\ lookups'[t] # <<>>) =>
              /\ Len(lookups'[t]) = 1
              /\ lookups'[t][1].endpoint = GraphListEndpoint
              /\ lookups'[t][1].params = [graph_name |-> GivenParams(t)["graph_name"]]
              /\ handshakes'[t] = handshakes[t]
              /\ handshakes'[t] = <<>>
              /\ slot' = slot
              /\ forwarded'[t] = forwarded[t]
              /\ params'[t] = params[t]
              /\ nCalls' = nCalls]_vars

\* a .write call with a config of its own, whose lookup answered "remote"
\* and whose handshake has not been made yet
C14_Witness ==
    \E t \in Callers :
        /\ pc[t] = "authenticate"
        /\ IsRemoteWrite(t)
        /\ handshakes[t] = <<>>
        /\ "config" \in Keys(GivenParams(t))
        /\ Keys(lookups[t][1].params) = {"graph_name"}

\* ------------------------------------------------------------------------
\* C15 - the connection info is resolved once: an instance whose
\* construction returned has opened one driver and issued the status query
\* once, and no step taken on it afterwards (call_endpoint, a forwarding
\* method, close) opens another driver, repeats the query, or changes the
\* location (scheme, host, port) of its client or its encryption flag.
\* ------------------------------------------------------------------------
C15_ResolvedOnce ==
    [][ctor = "ready" =>
          /\ drivers_opened = 1 /\ status_queries = 1
          /\ drivers_opened' = 1 /\ status_queries' = 1
          /\ ctor' = "ready"
          /\ driver' = driver
          /\ arrow_info' = arrow_info
          /\ _encrypted' = _encrypted
          /\ _client'[1].location = _client[1].location
          /\ _client[1].location.scheme = (IF _encrypted THEN "grpc+tls" ELSE "grpc+tcp")]_vars

\* an instance on which calls were made and which was then closed
C15_Witness ==
    /\ ctor = "ready"
    /\ nCalls >= 2
    /\ ~_client[1].open
    /\ _client[1].location = Location(<<"1", "0", ".", "0", ".", "0", ".", "5">>, 9999, TRUE)

\* ------------------------------------------------------------------------
\* C16 - the driver opened for the status query is closed once __init__
\* has returned or raised, whichever way the with block was left (success,
\* query error, not running, address missing, malformed address, error of
\* the FlightClient constructor), and is never reopened; the FlightClient
\* of an instance that construction has just returned is open.
\* ------------------------------------------------------------------------
C16_DriverClosedAtExit ==
    ctor \in {"ready", "failed"} =>
        /\ ~IsNone(driver)
        /\ ~driver[1].open
        /\ (ctor = "ready" /\ nCalls = 0) => (~IsNone(_client) /\ _client[1].open)

\* a construction that failed in the FlightClient constructor, after the
\* row and the address were accepted
C16_Witness ==
    /\ ctor = "failed"
    /\ ~IsNone(ctor_error) /\ ctor_error[1].type = "FlightError"
    /\ arrow_info = Some(StatusRow(Some(TRUE), Some(AddrIp)))
    /\ ~driver[1].open

\* the header is a string or a list with a first element
HasText(hd) == hd.kind \in {"str", "list"} /\ Len(hd.items) > 0
TextOf(hd) == hd.items[1]
\* "<scheme> <credential>": the text has a space; its parts around the
\* first space
HasSpace(text) == \E i \in 1..Len(text) : text[i] = " "
FirstSpace(text) ==
    CHOOSE i \in 1..Len(text) : text[i] = " " /\ \A j \in 1..(i - 1) : text[j] # " "
SchemeOf(text) == SubSeq(text, 1, FirstSpace(text) - 1)
CredentialOf(text) == SubSeq(text, FirstSpace(text) + 1, Len(text))

\* ------------------------------------------------------------------------
\* C17 - header parsing: after a handshake whose response has an
\* authorization header that is a string, or a list whose first element is
\* used, of the form "<scheme> <credential>", the middleware's token is the
\* credential (all that follows the first space) when the scheme is exactly
\* Bearer, and is what it was before the handshake (unset if it was unset)
\* for any other scheme; when the arrowpluginaddress header is a string or
\* a list, the middleware's address is that string or the first element.
\* ------------------------------------------------------------------------
C17_HeaderParsing ==
    \A t \in Callers :
        (handshakes[t] # <<>> /\ ~handshakes[t][1].reply.rejected) =>
            LET h == handshakes[t][1]
                auth == h.reply.headers.authorization
                addr == h.reply.headers.arrowpluginaddress
            IN  (HasText(auth) /\ HasSpace(TextOf(auth))) =>
                    /\ _token = IF SchemeOf(TextOf(auth)) = <<"B", "e", "a", "r", "e", "r">>
                                THEN Some(CredentialOf(TextOf(auth)))
                                ELSE h.before.token
                    /\ HasText(addr) => _arrow_address = Some(TextOf(addr))

\* a response of another scheme, with its address in a list, met by a
\* middleware that held a token: the token is kept, the address replaced
C17_Witness ==
    \E t \in Callers :
        /\ pc[t] = "token"
        /\ handshakes[t] # <<>>
        /\ handshakes[t][1].reply.headers.authorization = StrHeader(AuthBasic)
        /\ handshakes[t][1].reply.headers.arrowpluginaddress = ListHeader(<<AddrH3>>)
        /\ ~IsNone(handshakes[t][1].before.token)
        /\ _token = handshakes[t][1].before.token
        /\ _arrow_address = Some(AddrH3)
        /\ handshakes[t][1].before.address # Some(AddrH3)

\* the handshake of caller t's call was accepted and its response headers
\* were read without an exception
HandshakeSucceeded(t) ==
    handshakes[t] # <<>> /\ ~HandshakeFailed(handshakes[t][1])

\* ------------------------------------------------------------------------
\* C18 as stated - token() and endpoint() never return an empty or
\* undefined value, and a privileged call is never forwarded with an unset
\* or empty token or address.
\* ------------------------------------------------------------------------
C18_NeverEmptyOrUnset ==
    \A t \in Callers :
        /\ ~IsNone(token[t]) => token[t][1] # <<>>
        /\ ~IsNone(aura_db_arrow_endpoint[t]) => aura_db_arrow_endpoint[t][1] # <<>>
        /\ (IsPrivileged(t) /\ WasForwarded(t)) =>
              /\ ~IsNone(token[t]) /\ ~IsNone(aura_db_arrow_endpoint[t])
              /\ InjectedToken(t) # <<>>

\* ------------------------------------------------------------------------
\* C18 - a read of a token that no handshake has stored fails: when the
\* handshake of a privileged call succeeded and the middleware holds no
\* token (the response carried a scheme other than Bearer and nothing was
\* stored before), token() raises AttributeError, the call ends with it
\* and nothing is forwarded; a privileged call that is forwarded has read
\* a stored token and a stored address and hands the delegate that token.
\* A stored value may be the empty string (the credential of "Bearer ").
\* ------------------------------------------------------------------------
C18_UnsetReadFails ==
    \A t \in Callers :
        /\ (IsPrivileged(t) /\ HandshakeSucceeded(t) /\ IsNone(_token) /\ pc[t] # "token") =>
              /\ pc[t] = "done"
              /\ outcome[t] = Some([raised |-> TRUE, value |-> "AttributeError"])
              /\ forwarded[t] = <<>>
        /\ (IsPrivileged(t) /\ pc[t] \in {"endpoint", "inject", "forward"}) =>
              (~IsNone(_token) /\ token[t] = _token)
        /\ (IsPrivileged(t) /\ WasForwarded(t)) =>
              /\ ~IsNone(token[t]) /\ ~IsNone(aura_db_arrow_endpoint[t])
              /\ token[t] = _token /\ aura_db_arrow_endpoint[t] = _arrow_address
              /\ InjectedToken(t) = token[t][1]

\* a first privileged call whose handshake answered with another scheme:
\* no token stored, an address stored, and token() raised
C18_Witness ==
    \E t \in Callers :
        /\ IsPrivileged(t)
        /\ HandshakeSucceeded(t)
        /\ IsNone(handshakes[t][1].before.token)
        /\ IsNone(_token) /\ ~IsNone(_arrow_address)
        /\ pc[t] = "done"
        /\ outcome[t] = Some([raised |-> TRUE, value |-> "AttributeError"])

\* the position of the last colon of a text that has one
HasColon(text) == \E i \in 1..Len(text) : text[i] = ":"
LastColon(text) ==
    CHOOSE i \in 1..Len(text) : text[i] = ":" /\ \A j \in (i + 1)..Len(text) : text[j] # ":"
BeforeLastColon(text) == SubSeq(text, 1, LastColon(text) - 1)
AfterLastColon(text) == SubSeq(text, LastColon(text) + 1, Len(text))

\* ------------------------------------------------------------------------
\* C19 - address split: once the body of the constructor has run on a row
\* that is running and has an advertised address, an address with a colon
\* whose text after the last colon is an integer has given the client the
\* host before the last colon and that integer as port (unless the
\* FlightClient constructor itself raised), and any other address has made
\* construction fail without a client.
\* Stated as in the specification; the code splits on every colon.
\* ------------------------------------------------------------------------
C19_SplitOnLastColon ==
    (/\ BodyRan
     /\ ~IsNone(arrow_info)
     /\ arrow_info[1].running = Some(TRUE)
     /\ ~IsNone(arrow_info[1].advertisedListenAddress)
     /\ arrow_info[1].advertisedListenAddress # Some(<<>>)) =>
        LET address == arrow_info[1].advertisedListenAddress[1]
        IN  IF HasColon(address) /\ IntParse(AfterLastColon(address)).err = ""
            THEN \/ /\ IsNone(ctor_error)
                    /\ ~IsNone(_client)
                    /\ _client[1].location.host = BeforeLastColon(address)
                    /\ _client[1].location.port = IntParse(AfterLastColon(address)).val
                 \/ /\ ~IsNone(ctor_error) /\ ctor_error[1].type = "FlightError"
                    /\ IsNone(_client)
            ELSE ~IsNone(ctor_error) /\ IsNone(_client) /\ ctor # "ready"

\* ------------------------------------------------------------------------
\* C20 - AuthPair consistency: once the response of a handshake has gone
\* through the middleware, a stored token and a stored address come from
\* one response header set: both are the token and the address of that
\* response, or both are what the middleware held before it; never the
\* token of one response with the address of another.
\* Stated as in the specification; the code violates it after a response
\* whose scheme is not Bearer or whose address header cannot be read.
\* ------------------------------------------------------------------------
C20_PairFromOneResponse ==
    \A t \in Callers :
        (/\ handshakes[t] # <<>>
         /\ ~handshakes[t][1].reply.rejected
         /\ ~IsNone(_token)
         /\ ~IsNone(_arrow_address)) =>
            LET h == handshakes[t][1]
            IN  \/ _token = HandshakeToken(h) /\ _arrow_address = HandshakeAddress(h)
                \/ _token = h.before.token /\ _arrow_address = h.before.address

====
